---- MODULE Spec2Model ----
(***************************************************************************)
(* Time-bounded, transfer-aware station reachability (Eki-kensaku):        *)
(* graph construction, the single-origin search, the multi-origin merge    *)
(* and the grouped search.                                                 *)
(*                                                                         *)
(* Conventions.  A JavaScript Map is a function plus, where the code       *)
(* iterates over it, the sequence of its keys in insertion order.  The     *)
(* state key `${station}_${line}` is the pair <<station, line>>: station   *)
(* codes hold no underscore and no line is called "null", so the string    *)
(* and the pair determine each other.  null is the string NULL.  A         *)
(* routesFromOrigins that is undefined is the empty function: the code     *)
(* never builds an empty object for it.                                    *)
(***************************************************************************)
EXTENDS Integers, Sequences, FiniteSets, TLC

VARIABLES
    graphCache,           \* part_002:4, the cache of buildGraph: <<>> is null,
                          \* <<g>> the cached graph g
    graph,                \* the StationGraph the searches run against (graph.json)
    originCode,           \* searchReachableStations: argument
    maxTime,              \* searchReachableStations: argument
    stateDistances,       \* search.ts:109
    stationOrder,         \* keys of stationDistances in insertion order
    stationDistances,     \* search.ts:111
    pathMap,              \* search.ts:113
    bestStateForStation,  \* search.ts:115
    queue,                \* search.ts:116, the heap array of the PriorityQueue
    pc,                   \* position of the running call
    call,                 \* the arguments of the running call
    ret,                  \* what the call returned
    objects,              \* the objects of a multi-origin call: an object's
                          \* reference is its index
    searchPromises,       \* part_003:24, the promises of the per-origin searches
    mergedMap,            \* part_003:31, the values of mergedResults in insertion order
    cursor                \* part_003:33-37, the positions <<i, k>> of the merge loops

vars == <<graphCache, graph, originCode, maxTime, stateDistances, stationOrder,
          stationDistances, pathMap, bestStateForStation, queue, pc, call, ret,
          objects, searchPromises, mergedMap, cursor>>

NULL == "null"
EmptyMap == <<>>

----------------------------------------------------------------------------
(* Bounds of the model *)

MaxConns == 3        \* connections given to the graph builder
MaxEdgeTime == 2     \* largest travel time of a connection
MaxBudget == 7       \* largest maxTime of a query
MaxQueryConns == 2   \* connections of the graphs of the multi-origin queries
MaxOrigins == 2      \* origins of one query or group
MaxGroups == 2       \* groups of one grouped query

----------------------------------------------------------------------------
(* The dataset: stations and the lines serving them *)

LineCodes == {"L1", "L2"}

Line(c) == [code |-> c, name |-> "N" \o c]

stations ==
    << [code |-> "A", name |-> "a", lines |-> <<Line("L1")>>],
       [code |-> "B", name |-> "b", lines |-> <<Line("L1"), Line("L2")>>],
       [code |-> "C", name |-> "c", lines |-> <<Line("L1"), Line("L2"), Line("L3")>>] >>

StationCodes == {stations[i].code : i \in DOMAIN stations}

\* new Map(stations.map((s) => [s.code, s]))
createStationMap(stationList) ==
    [c \in {stationList[i].code : i \in DOMAIN stationList} |->
        stationList[CHOOSE i \in DOMAIN stationList :
                       /\ stationList[i].code = c
                       /\ \A j \in DOMAIN stationList :
                             stationList[j].code = c => j <= i]]

stationMap == createStationMap(stations)

stationIndexOf(code) == CHOOSE i \in DOMAIN stations : stations[i].code = code

Has(m, k) == k \in DOMAIN m

Put(m, k, v) == (k :> v) @@ m

----------------------------------------------------------------------------
(* Transfer Cost Estimator *)

\* estimateTransferTime with the thresholds taken as strict bounds
estimateTransferTime_StrictThresholds(station) ==
    LET lineCount == Len(station.lines)
    IN  IF lineCount < 2 THEN 3
        ELSE IF lineCount < 4 THEN 5
        ELSE IF lineCount < 6 THEN 7
        ELSE 10

estimateTransferTime(station) ==
    LET lineCount == Len(station.lines)
    IN  IF lineCount <= 2 THEN 3
        ELSE IF lineCount <= 4 THEN 5
        ELSE IF lineCount <= 6 THEN 7
        ELSE 10

----------------------------------------------------------------------------
(* Graph Builder *)

Edge(station, time, line) == [station |-> station, time |-> time, line |-> line]

\* the duplicate test looking at the last pushed edge only
HasEdge_LastOnly(edges, station, line) ==
    /\ Len(edges) > 0
    /\ edges[Len(edges)].station = station
    /\ edges[Len(edges)].line = line

\* edges.some((e) => e.station === station && e.line === line)
HasEdge(edges, station, line) ==
    \E i \in DOMAIN edges : edges[i].station = station /\ edges[i].line = line

\* graph.get(code) || []
EdgesOf(g, code) == IF Has(g, code) THEN g[code] ELSE <<>>

\* one direction of a connection: push the edge unless (target, line) is there
AddEdge(g, from, to, line, time) ==
    LET edges == EdgesOf(g, from)
    IN  IF HasEdge(edges, to, line) THEN g
        ELSE Put(g, from, Append(edges, Edge(to, time, line)))

\* AddConnection with the duplicate test of the reverse direction left out
AddConnection_ReverseUnchecked(g, known, conn) ==
    IF conn.from \notin known \/ conn.to \notin known THEN g
    ELSE LET g1 == AddEdge(g, conn.from, conn.to, conn.line, conn.time)
         IN  Put(g1, conn.to,
                 Append(EdgesOf(g1, conn.to), Edge(conn.from, conn.time, conn.line)))

\* AddConnection that looks up the from code only
AddConnection_FromOnly(g, known, conn) ==
    IF conn.from \notin known THEN g
    ELSE AddEdge(AddEdge(g, conn.from, conn.to, conn.line, conn.time),
                 conn.to, conn.from, conn.line, conn.time)

\* the body of the loop over the connections
AddConnection(g, known, conn) ==
    IF conn.from \notin known \/ conn.to \notin known THEN g
    ELSE AddEdge(AddEdge(g, conn.from, conn.to, conn.line, conn.time),
                 conn.to, conn.from, conn.line, conn.time)

RECURSIVE AddConnections(_, _, _, _)
AddConnections(g, known, connections, i) ==
    IF i > Len(connections) THEN g
    ELSE AddConnections(AddConnection(g, known, connections[i]), known,
                        connections, i + 1)

\* constructGraph without the loop that gives every station an empty list
constructGraph_TouchedOnly(stationList, connections) ==
    LET known == {stationList[i].code : i \in DOMAIN stationList}
    IN  AddConnections(EmptyMap, known, connections, 1)

\* buildGraph past its cache test: every station gets an empty list, then
\* the connections are added in order
constructGraph(stationList, connections) ==
    LET known == {stationList[i].code : i \in DOMAIN stationList}
    IN  AddConnections([c \in known |-> <<>>], known, connections, 1)

\* buildGraph that builds from its arguments on every call
buildGraph_Rebuild(cache, stationList, connections) ==
    constructGraph(stationList, connections)

\* buildGraph: the cached graph when there is one, whatever the arguments
buildGraph(cache, stationList, connections) ==
    IF Len(cache) > 0 THEN cache[1]
    ELSE constructGraph(stationList, connections)

\* the build script (main): the same construction over a plain object;
\* graph[conn.from] is read directly, every known code being a key
scriptAddEdge(g, from, to, line, time) ==
    IF HasEdge(g[from], to, line) THEN g
    ELSE [g EXCEPT ![from] = Append(g[from], Edge(to, time, line))]

scriptAddConnection(g, stationCodes, conn) ==
    IF conn.from \notin stationCodes \/ conn.to \notin stationCodes THEN g
    ELSE scriptAddEdge(scriptAddEdge(g, conn.from, conn.to, conn.line, conn.time),
                       conn.to, conn.from, conn.line, conn.time)

RECURSIVE scriptAddConnections(_, _, _, _)
scriptAddConnections(g, stationCodes, connections, i) ==
    IF i > Len(connections) THEN g
    ELSE scriptAddConnections(scriptAddConnection(g, stationCodes, connections[i]),
                              stationCodes, connections, i + 1)

scriptGraph(stationList, connections) ==
    LET stationCodes == {stationList[i].code : i \in DOMAIN stationList}
    IN  scriptAddConnections([c \in stationCodes |-> <<>>], stationCodes,
                             connections, 1)

----------------------------------------------------------------------------
(* PriorityQueue: a binary min-heap in an array (index 1 is the root) *)

QueueEntry(stationCode, lineCode, totalTime) ==
    [stationCode |-> stationCode, lineCode |-> lineCode, totalTime |-> totalTime]

Swap(heap, i, j) == [heap EXCEPT ![i] = heap[j], ![j] = heap[i]]

RECURSIVE bubbleUp(_, _)
bubbleUp(heap, index) ==
    IF index <= 1 THEN heap
    ELSE LET parentIndex == index \div 2
         IN  IF heap[parentIndex].totalTime <= heap[index].totalTime THEN heap
             ELSE bubbleUp(Swap(heap, parentIndex, index), parentIndex)

RECURSIVE bubbleDown(_, _)
bubbleDown(heap, index) ==
    LET length == Len(heap)
        leftChild == 2 * index
        rightChild == 2 * index + 1
        s1 == IF leftChild <= length
                 /\ heap[leftChild].totalTime < heap[index].totalTime
              THEN leftChild ELSE index
        smallest == IF rightChild <= length
                       /\ heap[rightChild].totalTime < heap[s1].totalTime
                    THEN rightChild ELSE s1
    IN  IF smallest = index THEN heap
        ELSE bubbleDown(Swap(heap, smallest, index), smallest)

push(heap, entry) == bubbleUp(Append(heap, entry), Len(heap) + 1)

\* pop() that returns the root and leaves it in the array
popRest_Keep(heap) == heap

\* the array after pop(); pop() returns heap[1]
popRest(heap) ==
    LET last == heap[Len(heap)]
        rest == SubSeq(heap, 1, Len(heap) - 1)
    IN  IF Len(rest) > 0 THEN bubbleDown([rest EXCEPT ![1] = last], 1) ELSE rest

----------------------------------------------------------------------------
(* Reachability Search Engine: searchReachableStations *)

StateKey(stationCode, lineCode) == <<stationCode, lineCode>>

PathInfo(prevStation, prevLine, lineCode, time) ==
    [prevStation |-> prevStation, prevLine |-> prevLine,
     lineCode |-> lineCode, time |-> time]

\* the local state of one call, after the initialisation of the origin
InitialSearch(origin) ==
    [stateDistances      |-> StateKey(origin, NULL) :> 0,
     stationOrder        |-> <<origin>>,
     stationDistances    |-> origin :> 0,
     pathMap             |-> StateKey(origin, NULL) :> PathInfo(NULL, NULL, NULL, 0),
     bestStateForStation |-> origin :> StateKey(origin, NULL),
     queue               |-> push(<<>>, QueueEntry(origin, NULL, 0))]

\* needsTransfer that also counts boarding the first line at the origin
needsTransfer_AlsoAtOrigin(current, edge) ==
    current.lineCode # edge.line

needsTransfer(current, edge) ==
    current.lineCode # NULL /\ current.lineCode # edge.line

\* segmentTimeOf with the transfer time of the station the edge leads to
segmentTimeOf_TargetStation(index, current, edge) ==
    IF needsTransfer(current, edge)
    THEN edge.time + estimateTransferTime(index[edge.station])
    ELSE edge.time

\* what crossing the edge costs from the popped state: the travel time, plus
\* the transfer time of the current station when the line changes
segmentTimeOf(index, current, edge) ==
    IF needsTransfer(current, edge)
    THEN edge.time + estimateTransferTime(index[current.stationCode])
    ELSE edge.time

\* relaxEdge keyed by the station alone: a state is recorded only when it
\* improves the station's time, as a search without line states would
relaxEdge_StationKeyed(index, budget, current, edge, s) ==
    LET segmentTime == segmentTimeOf(index, current, edge)
        newTime == current.totalTime + segmentTime
        newState == StateKey(edge.station, edge.line)
    IN  IF newTime > budget THEN s
        ELSE IF Has(s.stationDistances, edge.station)
                /\ ~(newTime < s.stationDistances[edge.station]) THEN s
        ELSE [stateDistances |-> Put(s.stateDistances, newState, newTime),
              pathMap |-> Put(s.pathMap, newState,
                              PathInfo(current.stationCode, current.lineCode,
                                       edge.line, segmentTime)),
              stationOrder |->
                  IF Has(s.stationDistances, edge.station) THEN s.stationOrder
                  ELSE Append(s.stationOrder, edge.station),
              stationDistances |-> Put(s.stationDistances, edge.station, newTime),
              bestStateForStation |-> Put(s.bestStateForStation, edge.station, newState),
              queue |-> push(s.queue, QueueEntry(edge.station, edge.line, newTime))]

\* relaxEdge without the test of the new time against the budget
relaxEdge_NoBudget(index, budget, current, edge, s) ==
    LET segmentTime == segmentTimeOf(index, current, edge)
        newTime == current.totalTime + segmentTime
        newState == StateKey(edge.station, edge.line)
    IN  IF Has(s.stateDistances, newState)
           /\ ~(newTime < s.stateDistances[newState]) THEN s
        ELSE LET better == \/ ~Has(s.stationDistances, edge.station)
                           \/ newTime < s.stationDistances[edge.station]
             IN  [stateDistances |-> Put(s.stateDistances, newState, newTime),
                  pathMap |-> Put(s.pathMap, newState,
                                  PathInfo(current.stationCode, current.lineCode,
                                           edge.line, segmentTime)),
                  stationOrder |->
                      IF Has(s.stationDistances, edge.station) THEN s.stationOrder
                      ELSE Append(s.stationOrder, edge.station),
                  stationDistances |->
                      IF better THEN Put(s.stationDistances, edge.station, newTime)
                      ELSE s.stationDistances,
                  bestStateForStation |->
                      IF better THEN Put(s.bestStateForStation, edge.station, newState)
                      ELSE s.bestStateForStation,
                  queue |-> push(s.queue, QueueEntry(edge.station, edge.line, newTime))]

improvesStation_FirstOnly(distances, station, newTime) ==
    ~Has(distances, station)

improvesStation_OrEqual(distances, station, newTime) ==
    \/ ~Has(distances, station)
    \/ newTime <= distances[station]

\* the test that guards the update of the per-station minimum
improvesStation(distances, station, newTime) ==
    \/ ~Has(distances, station)
    \/ newTime < distances[station]

\* the body of the loop over the edges of the popped state
relaxEdge(index, budget, current, edge, s) ==
    LET segmentTime == segmentTimeOf(index, current, edge)
        newTime == current.totalTime + segmentTime
        newState == StateKey(edge.station, edge.line)
    IN  IF newTime > budget THEN s
        ELSE IF Has(s.stateDistances, newState)
                /\ ~(newTime < s.stateDistances[newState]) THEN s
        ELSE LET better == improvesStation(s.stationDistances, edge.station, newTime)
             IN  [stateDistances |-> Put(s.stateDistances, newState, newTime),
                  pathMap |-> Put(s.pathMap, newState,
                                  PathInfo(current.stationCode, current.lineCode,
                                           edge.line, segmentTime)),
                  stationOrder |->
                      IF Has(s.stationDistances, edge.station) THEN s.stationOrder
                      ELSE Append(s.stationOrder, edge.station),
                  stationDistances |->
                      IF better THEN Put(s.stationDistances, edge.station, newTime)
                      ELSE s.stationDistances,
                  bestStateForStation |->
                      IF better THEN Put(s.bestStateForStation, edge.station, newState)
                      ELSE s.bestStateForStation,
                  queue |-> push(s.queue, QueueEntry(edge.station, edge.line, newTime))]

RECURSIVE relaxEdges(_, _, _, _, _, _)
relaxEdges(index, budget, current, edges, i, s) ==
    IF i > Len(edges) THEN s
    ELSE relaxEdges(index, budget, current, edges, i + 1,
                    relaxEdge(index, budget, current, edges[i], s))

\* expands with the comparison against the budget turned round
expands_BudgetInverted(index, budget, s) ==
    LET current == s.queue[1]
        currentState == StateKey(current.stationCode, current.lineCode)
    IN  /\ ~(Has(s.stateDistances, currentState)
              /\ current.totalTime > s.stateDistances[currentState])
        /\ ~(current.totalTime < budget)
        /\ Has(index, current.stationCode)

\* expands without the test that the popped station is in the index
expands_UnknownStation(index, budget, s) ==
    LET current == s.queue[1]
        currentState == StateKey(current.stationCode, current.lineCode)
    IN  /\ ~(Has(s.stateDistances, currentState)
              /\ current.totalTime > s.stateDistances[currentState])
        /\ ~(current.totalTime > budget)

\* whether the popped entry is expanded: not stale, within the budget, and a
\* station of the index
expands(index, budget, s) ==
    LET current == s.queue[1]
        currentState == StateKey(current.stationCode, current.lineCode)
    IN  /\ ~(Has(s.stateDistances, currentState)
              /\ current.totalTime > s.stateDistances[currentState])
        /\ ~(current.totalTime > budget)
        /\ Has(index, current.stationCode)

\* one iteration of the while loop
searchIteration(g, index, budget, s) ==
    LET current == s.queue[1]
        popped == [s EXCEPT !.queue = popRest(s.queue)]
    IN  IF expands(index, budget, s)
        THEN relaxEdges(index, budget, current,
                        EdgesOf(g, current.stationCode), 1, popped)
        ELSE popped

RECURSIVE searchLoop(_, _, _, _)
searchLoop(g, index, budget, s) ==
    IF Len(s.queue) = 0 THEN s
    ELSE searchLoop(g, index, budget, searchIteration(g, index, budget, s))

\* the lines of the index, in the order of stationMap.values()
LinesOfIndex ==
    UNION {{stations[i].lines[j].code : j \in DOMAIN stations[i].lines} :
              i \in DOMAIN stations}

\* station.lines.find((l) => l.code === lineCode) over the stations in order
FirstLineNamed(lineCode) ==
    LET hits == {h \in UNION {{<<i, j>> : j \in DOMAIN stations[i].lines} :
                                i \in DOMAIN stations} :
                    stations[h[1]].lines[h[2]].code = lineCode}
        first == CHOOSE h \in hits :
                    \A k \in hits : h[1] < k[1] \/ (h[1] = k[1] /\ h[2] <= k[2])
    IN  stations[first[1]].lines[first[2]]

LineNames == [c \in LinesOfIndex |-> FirstLineNamed(c).name]

\* getLineName: the name of the first line with that code in the index,
\* the code itself when no station lists it
getLineName(lineCode) ==
    IF lineCode \in LinesOfIndex THEN LineNames[lineCode] ELSE lineCode

RouteStep(fromCode, toCode, from, to, line, time) ==
    [fromCode |-> fromCode, toCode |-> toCode, from |-> from, to |-> to,
     line |-> line, time |-> time]

\* walkBack that puts each step behind the steps found so far
RECURSIVE walkBack_Append(_, _, _, _)
walkBack_Append(index, s, currentState, route) ==
    IF ~Has(s.pathMap, currentState) THEN route
    ELSE LET info == s.pathMap[currentState]
             toStationCode == currentState[1]
         IN  IF info.prevStation = NULL THEN route
             ELSE walkBack_Append(index, s, StateKey(info.prevStation, info.prevLine),
                      IF Has(index, info.prevStation) /\ Has(index, toStationCode)
                         /\ info.lineCode # NULL
                      THEN Append(route,
                                  RouteStep(info.prevStation, toStationCode,
                                            index[info.prevStation].name,
                                            index[toStationCode].name,
                                            getLineName(info.lineCode),
                                            info.time))
                      ELSE route)

\* the while loop of reconstructRoute: walk the predecessor records back
\* from currentState, putting each step in front of route
RECURSIVE walkBack(_, _, _, _)
walkBack(index, s, currentState, route) ==
    IF ~Has(s.pathMap, currentState) THEN route
    ELSE LET info == s.pathMap[currentState]
             toStationCode == currentState[1]
         IN  IF info.prevStation = NULL THEN route
             ELSE walkBack(index, s, StateKey(info.prevStation, info.prevLine),
                      IF Has(index, info.prevStation) /\ Has(index, toStationCode)
                         /\ info.lineCode # NULL
                      THEN <<RouteStep(info.prevStation, toStationCode,
                                       index[info.prevStation].name,
                                       index[toStationCode].name,
                                       getLineName(info.lineCode),
                                       info.time)>> \o route
                      ELSE route)

\* reconstructRoute starting from the slowest recorded state of the station
\* instead of the state that achieved the station's time
reconstructRoute_SlowestState(index, s, stationCode) ==
    LET states == {k \in DOMAIN s.stateDistances : k[1] = stationCode}
    IN  IF ~Has(s.bestStateForStation, stationCode) THEN <<>>
        ELSE walkBack(index, s,
                      CHOOSE k \in states :
                          \A j \in states : s.stateDistances[j] <= s.stateDistances[k],
                      <<>>)

reconstructRoute(index, s, stationCode) ==
    IF ~Has(s.bestStateForStation, stationCode) THEN <<>>
    ELSE walkBack(index, s, s.bestStateForStation[stationCode], <<>>)

SearchResult(station, totalTime, timesFromOrigins, routesFromOrigins) ==
    [station |-> station, totalTime |-> totalTime,
     timesFromOrigins |-> timesFromOrigins,
     routesFromOrigins |-> routesFromOrigins]

\* InsertByTime that puts the result in front whatever its time
InsertByTime_InFront(sorted, r) == <<r>> \o sorted

\* results.sort((a, b) => a.totalTime - b.totalTime): a stable sort
RECURSIVE InsertByTime(_, _)
InsertByTime(sorted, r) ==
    IF sorted = <<>> THEN <<r>>
    ELSE IF sorted[Len(sorted)].totalTime <= r.totalTime THEN Append(sorted, r)
    ELSE Append(InsertByTime(SubSeq(sorted, 1, Len(sorted) - 1), r),
                sorted[Len(sorted)])

\* a sort that is not stable: results of equal time come out in reverse
\* order when the call is a repetition
RECURSIVE sortByTotalTime_UnstableOnRepeat(_)
sortByTotalTime_UnstableOnRepeat(results) ==
    IF results = <<>> THEN <<>>
    ELSE IF pc = "done"
    THEN InsertByTime(sortByTotalTime_UnstableOnRepeat(Tail(results)), Head(results))
    ELSE InsertByTime(sortByTotalTime_UnstableOnRepeat(
                          SubSeq(results, 1, Len(results) - 1)),
                      results[Len(results)])

RECURSIVE sortByTotalTime(_)
sortByTotalTime(results) ==
    IF results = <<>> THEN <<>>
    ELSE InsertByTime(sortByTotalTime(SubSeq(results, 1, Len(results) - 1)),
                      results[Len(results)])

\* the result list, in the order of stationDistances
RECURSIVE collectResults(_, _, _, _)
collectResults(index, origin, s, i) ==
    IF i > Len(s.stationOrder) THEN <<>>
    ELSE LET stationCode == s.stationOrder[i]
             totalTime == s.stationDistances[stationCode]
             route == reconstructRoute(index, s, stationCode)
             rest == collectResults(index, origin, s, i + 1)
         IN  IF Has(index, stationCode)
             THEN <<SearchResult(stationCode, totalTime, origin :> totalTime,
                                 IF Len(route) > 0 THEN origin :> route
                                 ELSE EmptyMap)>> \o rest
             ELSE rest

buildResults(index, origin, s) == sortByTotalTime(collectResults(index, origin, s, 1))

searchReachableStations(g, index, origin, budget) ==
    buildResults(index, origin, searchLoop(g, index, budget, InitialSearch(origin)))

----------------------------------------------------------------------------
(* Multi-Origin Aggregator: searchMultipleOriginsParallel *)

SearchParams(origins, budget, mode) ==
    [origins |-> origins, maxTime |-> budget, mode |-> mode]

Range(f) == {f[x] : x \in DOMAIN f}

MaxOf(S) == CHOOSE x \in S : \A y \in S : y <= x

MinOf(S) == CHOOSE x \in S : \A y \in S : x <= y

StationsIn(results) == {results[i].station : i \in DOMAIN results}

\* results.find((r) => r.station.code === stationCode), as a position
PositionOf(results, stationCode) ==
    CHOOSE i \in DOMAIN results :
        /\ results[i].station = stationCode
        /\ \A j \in DOMAIN results : results[j].station = stationCode => i <= j

\* mergeResult that never lowers the total time of an existing result
mergeResult_KeepFirstTotal(merged, origin, result) ==
    IF result.station \in StationsIn(merged)
    THEN LET p == PositionOf(merged, result.station)
             existing == merged[p]
         IN  [merged EXCEPT ![p] =
                [existing EXCEPT
                    !.timesFromOrigins =
                        Put(existing.timesFromOrigins, origin, result.totalTime),
                    !.routesFromOrigins =
                        IF DOMAIN result.routesFromOrigins # {}
                        THEN result.routesFromOrigins @@ existing.routesFromOrigins
                        ELSE existing.routesFromOrigins]]
    ELSE Append(merged, SearchResult(result.station, result.totalTime,
                                     origin :> result.totalTime,
                                     result.routesFromOrigins))

\* mergeResult that adds a result without looking for an existing one
mergeResult_AlwaysNew(merged, origin, result) ==
    Append(merged, SearchResult(result.station, result.totalTime,
                                origin :> result.totalTime,
                                result.routesFromOrigins))

\* the body of the inner merge loop: one result of one origin
mergeResult(merged, origin, result) ==
    IF result.station \in StationsIn(merged)
    THEN LET p == PositionOf(merged, result.station)
             existing == merged[p]
         IN  [merged EXCEPT ![p] =
                [station |-> existing.station,
                 totalTime |-> IF result.totalTime < existing.totalTime
                               THEN result.totalTime ELSE existing.totalTime,
                 timesFromOrigins |->
                     Put(existing.timesFromOrigins, origin, result.totalTime),
                 routesFromOrigins |->
                     IF DOMAIN result.routesFromOrigins # {}
                     THEN result.routesFromOrigins @@ existing.routesFromOrigins
                     ELSE existing.routesFromOrigins]]
    ELSE Append(merged, SearchResult(result.station, result.totalTime,
                                     origin :> result.totalTime,
                                     result.routesFromOrigins))

RECURSIVE mergeResults(_, _, _, _)
mergeResults(merged, origin, results, k) ==
    IF k > Len(results) THEN merged
    ELSE mergeResults(mergeResult(merged, origin, results[k]), origin, results, k + 1)

\* the outer merge loop: the results of origins[i], for i in list order
RECURSIVE mergeOrigins(_, _, _, _)
mergeOrigins(merged, origins, allResults, i) ==
    IF i > Len(origins) THEN merged
    ELSE mergeOrigins(mergeResults(merged, origins[i], allResults[i], 1),
                      origins, allResults, i + 1)

FilterSeq(seq, Keep(_)) ==
    LET F[i \in 0..Len(seq)] ==
            IF i = 0 THEN <<>>
            ELSE IF Keep(seq[i]) THEN Append(F[i - 1], seq[i]) ELSE F[i - 1]
    IN  F[Len(seq)]

\* filterAnd that leaves the merged (smallest) total time in place
filterAnd_KeepTotal(merged, origins) ==
    LET Every(r) == \A i \in DOMAIN origins : Has(r.timesFromOrigins, origins[i])
    IN  FilterSeq(merged, Every)

\* mode 'and': keep the results every origin has a time for, and report the
\* largest of the times
filterAnd(merged, origins) ==
    LET Every(r) == \A i \in DOMAIN origins : Has(r.timesFromOrigins, origins[i])
        kept == FilterSeq(merged, Every)
    IN  [i \in DOMAIN kept |->
            [kept[i] EXCEPT !.totalTime = MaxOf(Range(kept[i].timesFromOrigins))]]

\* filterByMode with the two modes exchanged
filterByMode_Swapped(merged, origins, mode) ==
    IF mode = "and" THEN merged ELSE filterAnd(merged, origins)

filterByMode(merged, origins, mode) ==
    IF mode = "and" THEN filterAnd(merged, origins) ELSE merged

\* excludeOrigins that removes nothing
excludeOrigins_None(results, originSet) == results

excludeOrigins(results, originSet) ==
    LET NotOrigin(r) == r.station \notin originSet
    IN  FilterSeq(results, NotOrigin)

searchMultipleOriginsParallel(g, index, params) ==
    LET origins == params.origins
        allResults == [i \in DOMAIN origins |->
                          searchReachableStations(g, index, origins[i], params.maxTime)]
        mergedResults == mergeOrigins(<<>>, origins, allResults, 1)
        filteredResults == filterByMode(mergedResults, origins, params.mode)
    IN  IF Len(origins) = 0 THEN <<>>
        ELSE sortByTotalTime(excludeOrigins(filteredResults, Range(origins)))

----------------------------------------------------------------------------
(* Grouped Query Composer: searchWithGroups *)

OriginGroup(origins, timeMinutes) == [origins |-> origins, timeMinutes |-> timeMinutes]

\* the station codes that every group's result list holds
commonStationCodes(groupResults) ==
    {c \in StationsIn(groupResults[1]) :
        \A i \in 2..Len(groupResults) : c \in StationsIn(groupResults[i])}

\* Object.assign over the groups' results in order: a later group's entry wins
RECURSIVE assignAll(_, _, _)
assignAll(acc, maps, i) ==
    IF i > Len(maps) THEN acc
    ELSE assignAll(maps[i] @@ acc, maps, i + 1)

\* mergeGroups reporting the smallest of the groups' total times
mergeGroups_MinTotal(groupResults, stationCode) ==
    LET resultsForStation ==
            [i \in DOMAIN groupResults |->
                groupResults[i][PositionOf(groupResults[i], stationCode)]]
    IN  SearchResult(resultsForStation[1].station,
                     MinOf({resultsForStation[i].totalTime : i \in DOMAIN resultsForStation}),
                     assignAll(EmptyMap,
                               [i \in DOMAIN resultsForStation |->
                                   resultsForStation[i].timesFromOrigins], 1),
                     assignAll(EmptyMap,
                               [i \in DOMAIN resultsForStation |->
                                   resultsForStation[i].routesFromOrigins], 1))

\* the merged result of one common station
mergeGroups(groupResults, stationCode) ==
    LET resultsForStation ==
            [i \in DOMAIN groupResults |->
                groupResults[i][PositionOf(groupResults[i], stationCode)]]
    IN  SearchResult(resultsForStation[1].station,
                     MaxOf({resultsForStation[i].totalTime : i \in DOMAIN resultsForStation}),
                     assignAll(EmptyMap,
                               [i \in DOMAIN resultsForStation |->
                                   resultsForStation[i].timesFromOrigins], 1),
                     assignAll(EmptyMap,
                               [i \in DOMAIN resultsForStation |->
                                   resultsForStation[i].routesFromOrigins], 1))

\* for (const stationCode of commonStationCodes): in the order of the base
\* (first) group's result list
RECURSIVE mergeCommon(_, _, _)
mergeCommon(groupResults, common, k) ==
    IF k > Len(groupResults[1]) THEN <<>>
    ELSE LET stationCode == groupResults[1][k].station
             rest == mergeCommon(groupResults, common, k + 1)
         IN  IF stationCode \in common
                /\ PositionOf(groupResults[1], stationCode) = k
             THEN <<mergeGroups(groupResults, stationCode)>> \o rest
             ELSE rest

allOriginsOf(groups) ==
    UNION {Range(groups[i].origins) : i \in DOMAIN groups}

\* searchWithGroups that leaves the groups without origins out of account
searchWithGroups_SkipEmptyGroups(g, index, groups) ==
    LET HasOrigins(group) == Len(group.origins) > 0
        searched == FilterSeq(groups, HasOrigins)
        groupResults ==
            [i \in DOMAIN searched |->
                searchMultipleOriginsParallel(g, index,
                    SearchParams(searched[i].origins, searched[i].timeMinutes, "or"))]
        mergedResults == mergeCommon(groupResults, commonStationCodes(groupResults), 1)
    IN  IF Len(searched) = 0 THEN <<>>
        ELSE IF Len(groupResults) = 1 THEN groupResults[1]
        ELSE sortByTotalTime(excludeOrigins(mergedResults, allOriginsOf(groups)))

searchWithGroups(g, index, groups) ==
    LET groupResults ==
            [i \in DOMAIN groups |->
                searchMultipleOriginsParallel(g, index,
                    SearchParams(groups[i].origins, groups[i].timeMinutes, "or"))]
        mergedResults == mergeCommon(groupResults, commonStationCodes(groupResults), 1)
    IN  IF Len(groups) = 0 THEN <<>>
        ELSE IF Len(groupResults) = 1 THEN groupResults[1]
        ELSE sortByTotalTime(excludeOrigins(mergedResults, allOriginsOf(groups)))

----------------------------------------------------------------------------
(* Inputs of the searches *)

Times == 0..MaxEdgeTime

\* maxTime is a number: a negative budget is a possible argument
Budgets == -1..MaxBudget

Connection(from, to, line, time) ==
    [from |-> from, to |-> to, line |-> line, time |-> time]

\* connections between two different stations of the dataset, each pair
\* in one direction (the other direction builds the same graph)
SearchConnections ==
    {Connection(stations[i].code, stations[j].code, l, t) :
        <<i, j, l, t>> \in {x \in (DOMAIN stations) \X (DOMAIN stations)
                                    \X LineCodes \X Times : x[1] < x[2]}}

SeqsUpTo(S, n) == UNION {[1..k -> S] : k \in 0..n}

SearchGraphs == {constructGraph(stations, cs) : cs \in SeqsUpTo(SearchConnections, MaxConns)}

UnknownCode == "X"

----------------------------------------------------------------------------
(* The running call: the function called and its arguments *)

Call(fn, args) == [fn |-> fn, args |-> args]

IdleSearch ==
    /\ originCode = NULL
    /\ maxTime = 0
    /\ stateDistances = EmptyMap
    /\ stationOrder = <<>>
    /\ stationDistances = EmptyMap
    /\ pathMap = EmptyMap
    /\ bestStateForStation = EmptyMap
    /\ queue = <<>>

searchVars == <<originCode, maxTime, stateDistances, stationOrder,
                stationDistances, pathMap, bestStateForStation, queue>>

IdleMerge ==
    /\ objects = <<>>
    /\ searchPromises = <<>>
    /\ mergedMap = <<>>
    /\ cursor = <<0, 0>>

mergeVars == <<objects, searchPromises, mergedMap, cursor>>

----------------------------------------------------------------------------
(* SpecBuild: calls of buildGraph and clearGraphCache, and the build script *)

BuildCodes == {stations[1].code, stations[2].code, UnknownCode}

\* connections in both directions, self-loops and unknown codes included
BuildConnections ==
    {Connection(f, t, l, w) :
        <<f, t, l, w>> \in BuildCodes \X BuildCodes \X LineCodes \X (1..MaxEdgeTime)}

BuildArgs(stationList, connections) ==
    [stations |-> stationList, connections |-> connections]

InitBuild ==
    /\ graphCache = <<>>
    /\ graph = EmptyMap
    /\ IdleSearch
    /\ IdleMerge
    /\ call \in {Call("buildGraph", BuildArgs(stations, cs)) :
                    cs \in SeqsUpTo(BuildConnections, MaxConns)}
    /\ pc = "call"
    /\ ret = EmptyMap

\* buildGraph(stations, connections)
BuildGraph ==
    /\ pc \in {"call", "call2"}
    /\ ret' = buildGraph(graphCache, call.args.stations, call.args.connections)
    /\ graphCache' = <<ret'>>
    /\ pc' = IF pc = "call" THEN "done" ELSE "done2"
    /\ UNCHANGED <<mergeVars, graph, searchVars, call>>

\* clearGraphCache()
ClearGraphCache ==
    /\ pc \in {"done", "done2"}
    /\ Len(graphCache) > 0
    /\ graphCache' = <<>>
    /\ UNCHANGED <<mergeVars, graph, searchVars, pc, call, ret>>

\* the build script: graph.json from the stations and the connections
BuildScript ==
    /\ pc = "call"
    /\ graph' = scriptGraph(call.args.stations, call.args.connections)
    /\ pc' = "written"
    /\ UNCHANGED <<mergeVars, graphCache, searchVars, call, ret>>

\* the station lists of a later call: all stations, the first one, none
LaterStations == {SubSeq(stations, 1, n) : n \in {0, 1, Len(stations)}}

\* the caller comes back with other arguments
CallAgain ==
    /\ pc = "done"
    /\ call' \in {Call("buildGraph", BuildArgs(sl, cs)) :
                     sl \in LaterStations, cs \in SeqsUpTo(BuildConnections, 1)}
    /\ pc' = "call2"
    /\ UNCHANGED <<mergeVars, graphCache, graph, searchVars, ret>>

NextBuild == BuildGraph \/ ClearGraphCache \/ BuildScript \/ CallAgain

SpecBuild == InitBuild /\ [][NextBuild]_vars

----------------------------------------------------------------------------
(* SpecSearch: one call of searchReachableStations, one loop iteration a step *)

S == [stateDistances |-> stateDistances, stationOrder |-> stationOrder,
      stationDistances |-> stationDistances, pathMap |-> pathMap,
      bestStateForStation |-> bestStateForStation, queue |-> queue]

SetSearch(s) ==
    /\ stateDistances' = s.stateDistances
    /\ stationOrder' = s.stationOrder
    /\ stationDistances' = s.stationDistances
    /\ pathMap' = s.pathMap
    /\ bestStateForStation' = s.bestStateForStation
    /\ queue' = s.queue

SearchArgs(origin, budget) == [originCode |-> origin, maxTime |-> budget]

InitSearch ==
    /\ graphCache = <<>>
    /\ graph \in SearchGraphs
    /\ originCode \in StationCodes \cup {UnknownCode}
    /\ maxTime \in Budgets
    /\ LET s == InitialSearch(originCode)
       IN  /\ stateDistances = s.stateDistances
           /\ stationOrder = s.stationOrder
           /\ stationDistances = s.stationDistances
           /\ pathMap = s.pathMap
           /\ bestStateForStation = s.bestStateForStation
           /\ queue = s.queue
    /\ IdleMerge
    /\ pc = "loop"
    /\ call = Call("searchReachableStations", SearchArgs(originCode, maxTime))
    /\ ret = <<>>

\* while (!queue.isEmpty()) { ... }
SearchIteration ==
    /\ pc = "loop"
    /\ Len(queue) > 0
    /\ SetSearch(searchIteration(graph, stationMap, maxTime, S))
    /\ UNCHANGED <<mergeVars, graphCache, graph, originCode, maxTime, pc, call, ret>>

\* the heap is empty: build, sort and return the results
SearchReturn ==
    /\ pc = "loop"
    /\ Len(queue) = 0
    /\ ret' = buildResults(stationMap, originCode, S)
    /\ pc' = "done"
    /\ UNCHANGED <<mergeVars, graphCache, graph, searchVars, call>>

NextSearch == SearchIteration \/ SearchReturn

SpecSearch == InitSearch /\ [][NextSearch]_vars

----------------------------------------------------------------------------
(* Whole calls of the three searches against one graph *)

QueryGraphs ==
    {constructGraph(stations, cs) : cs \in SeqsUpTo(SearchConnections, MaxQueryConns)}

\* the graphs searched under fairness: every graph of up to MaxQueryConns
\* connections, and the triangles A-B, B-C, A-C with every choice of times
TriangleGraphs ==
    {constructGraph(stations,
        <<Connection(stations[1].code, stations[2].code, l1, t1),
          Connection(stations[2].code, stations[3].code, l2, t2),
          Connection(stations[1].code, stations[3].code, l1, t3)>>) :
        <<l1, l2, t1, t2, t3>> \in LineCodes \X LineCodes \X Times \X Times \X Times}

InitSearchFair ==
    /\ graphCache = <<>>
    /\ graph \in QueryGraphs \cup TriangleGraphs
    /\ IdleSearch
    /\ IdleMerge
    /\ pc = "call"
    /\ call = Call("searchReachableStations", SearchArgs(NULL, 0))
    /\ ret = <<>>

\* searchReachableStations(graph, stationMap, originCode, maxTime) is
\* called: the maps and the heap are created and the origin is put in
SearchCall ==
    /\ pc = "call"
    /\ originCode' \in StationCodes \cup {UnknownCode}
    /\ maxTime' \in Budgets
    /\ call' = Call("searchReachableStations", SearchArgs(originCode', maxTime'))
    /\ SetSearch(InitialSearch(originCode'))
    /\ pc' = "loop"
    /\ UNCHANGED <<mergeVars, graphCache, graph, ret>>

NextSearchFair == SearchCall \/ SearchIteration \/ SearchReturn

\* the step SearchReturn makes on pc; SearchReturn is the only step of
\* NextSearchFair that satisfies it
SearchReturns == pc = "loop" /\ Len(queue) = 0 /\ pc' = "done"

\* the call runs to completion on the single JavaScript thread: a step of
\* the call that can be taken is taken
SpecSearchFair ==
    /\ InitSearchFair /\ [][NextSearchFair]_vars
    /\ WF_vars(SearchCall \/ SearchIteration)
    /\ WF_pc(SearchReturns)

OriginLists == SeqsUpTo(StationCodes, MaxOrigins)

Modes == {"or", "and"}

SingleCalls ==
    {Call("searchReachableStations", SearchArgs(o, m)) :
        <<o, m>> \in (StationCodes \cup {UnknownCode}) \X Budgets}

MultiCalls ==
    {Call("searchMultipleOriginsParallel", SearchParams(os, m, mode)) :
        <<os, m, mode>> \in OriginLists \X Budgets \X Modes}

GroupBudgets == {-1, 0, MaxBudget \div 2, MaxBudget}

\* the origins of a group: station codes in dataset order, none twice
GroupOriginLists ==
    {os \in OriginLists :
        \A i, j \in DOMAIN os :
            i < j => stationIndexOf(os[i]) < stationIndexOf(os[j])}

Groups == {OriginGroup(os, m) : <<os, m>> \in GroupOriginLists \X GroupBudgets}

GroupCalls == {Call("searchWithGroups", gs) : gs \in SeqsUpTo(Groups, MaxGroups)}

InitCall(calls) ==
    /\ graphCache = <<>>
    /\ graph \in QueryGraphs
    /\ IdleSearch
    /\ IdleMerge
    /\ call \in calls
    /\ pc = "call"
    /\ ret = <<>>

Return(value) ==
    /\ ret' = value
    /\ pc' = "done"
    /\ UNCHANGED <<mergeVars, graphCache, graph, searchVars, call>>

SearchReachableStations ==
    /\ pc = "call"
    /\ call.fn = "searchReachableStations"
    /\ Return(searchReachableStations(graph, stationMap, call.args.originCode,
                                      call.args.maxTime))

SearchMultipleOriginsParallel ==
    /\ pc = "call"
    /\ call.fn = "searchMultipleOriginsParallel"
    /\ Return(searchMultipleOriginsParallel(graph, stationMap, call.args))

SearchWithGroups ==
    /\ pc = "call"
    /\ call.fn = "searchWithGroups"
    /\ Return(searchWithGroups(graph, stationMap, call.args))

\* SpecMulti: one call of searchMultipleOriginsParallel
InitMulti == InitCall(MultiCalls)

NextMulti == SearchMultipleOriginsParallel

SpecMulti == InitMulti /\ [][NextMulti]_vars

----------------------------------------------------------------------------
(* SpecMerge: searchMultipleOriginsParallel statement by statement, with the
   result objects held by reference: the per-origin searches settle their
   promises in any order, Promise.all hands their values over by position,
   and the merge loop reads and writes objects *)

NoRef == 0

ResultObject(station, totalTime, timesFromOrigins, routesFromOrigins) ==
    [station |-> station, totalTime |-> totalTime,
     timesFromOrigins |-> timesFromOrigins,
     routesFromOrigins |-> routesFromOrigins]

\* results.push({station, totalTime, timesFromOrigins: {...},
\* routesFromOrigins: route.length > 0 ? {...} : undefined}) for each result
\* of a finished search: the objects after it and the list of references
RECURSIVE storeResults(_, _, _, _)
storeResults(objs, list, results, k) ==
    IF k > Len(results) THEN [objects |-> objs, list |-> list]
    ELSE LET r == results[k]
             o1 == Append(objs, r.timesFromOrigins)
             times == Len(o1)
             o2 == IF DOMAIN r.routesFromOrigins # {}
                   THEN Append(o1, r.routesFromOrigins) ELSE o1
             routes == IF DOMAIN r.routesFromOrigins # {} THEN Len(o2) ELSE NoRef
             o3 == Append(o2, ResultObject(r.station, r.totalTime, times, routes))
         IN  storeResults(o3, Append(list, Len(o3)), results, k + 1)

Promise(settled, value) == [settled |-> settled, value |-> value]

\* a promise fulfilled with the value of the search that finished first,
\* whichever search that was
settle_NextFree(promises, i, value) ==
    LET free == {j \in DOMAIN promises : ~promises[j].settled}
        first == CHOOSE j \in free : \A h \in free : j <= h
    IN  [promises EXCEPT ![first] = Promise(TRUE, value)]

\* the promise of origins[i] is fulfilled with the value of its search
settle(promises, i, value) ==
    [promises EXCEPT ![i] = Promise(TRUE, value)]

\* await Promise.all(searchPromises): the values by position
allResultsOf(promises) == [i \in DOMAIN promises |-> promises[i].value]

\* the merge that keeps the per-origin result object as the merged one
mergeStep_StoreResult(objs, mergedRefs, origin, r) ==
    LET result == objs[r]
        hits == {m \in Range(mergedRefs) : objs[m].station = result.station}
    IN  IF hits # {}
        THEN LET existing == CHOOSE m \in hits : TRUE
                 t == objs[existing].timesFromOrigins
                 o1 == [objs EXCEPT ![t] = Put(objs[t], origin, result.totalTime)]
             IN  [objects |-> o1, mergedMap |-> mergedRefs]
        ELSE [objects |-> objs, mergedMap |-> Append(mergedRefs, r)]

\* the body of the inner merge loop on the objects: r is the reference of
\* one result of origin
mergeStep(objs, mergedRefs, origin, r) ==
    LET result == objs[r]
        hits == {m \in Range(mergedRefs) : objs[m].station = result.station}
    IN  IF hits # {}
        THEN LET existing == CHOOSE m \in hits : TRUE
                 t == objs[existing].timesFromOrigins
                 o1 == [objs EXCEPT ![t] = Put(objs[t], origin, result.totalTime)]
                 spread == objs[result.routesFromOrigins]
                           @@ (IF o1[existing].routesFromOrigins # NoRef
                               THEN o1[o1[existing].routesFromOrigins]
                               ELSE EmptyMap)
                 o2 == IF result.routesFromOrigins # NoRef
                       THEN [Append(o1, spread) EXCEPT
                                ![existing].routesFromOrigins = Len(o1) + 1]
                       ELSE o1
                 o3 == IF result.totalTime < o2[existing].totalTime
                       THEN [o2 EXCEPT ![existing].totalTime = result.totalTime]
                       ELSE o2
             IN  [objects |-> o3, mergedMap |-> mergedRefs]
        ELSE LET o1 == Append(objs, origin :> result.totalTime)
                 o2 == Append(o1, ResultObject(result.station, result.totalTime,
                                               Len(o1), result.routesFromOrigins))
             IN  [objects |-> o2, mergedMap |-> Append(mergedRefs, Len(o2))]

\* the SearchResult an object stands for
valueOf(objs, ref) ==
    SearchResult(objs[ref].station, objs[ref].totalTime,
                 objs[objs[ref].timesFromOrigins],
                 IF objs[ref].routesFromOrigins = NoRef THEN EmptyMap
                 ELSE objs[objs[ref].routesFromOrigins])

InitMerge == InitCall(MultiCalls)

\* if (origins.length === 0) return []
NoOrigins ==
    /\ pc = "call"
    /\ Len(call.args.origins) = 0
    /\ ret' = <<>>
    /\ pc' = "done"
    /\ UNCHANGED <<graphCache, graph, searchVars, call, mergeVars>>

\* origins.map(...): one promise per origin
StartSearches ==
    /\ pc = "call"
    /\ Len(call.args.origins) > 0
    /\ searchPromises' = [i \in DOMAIN call.args.origins |-> Promise(FALSE, <<>>)]
    /\ pc' = "await"
    /\ UNCHANGED <<graphCache, graph, searchVars, call, ret, objects, mergedMap, cursor>>

\* the search of origins[i] finishes and its promise is fulfilled
SearchSettles(i) ==
    /\ pc = "await"
    /\ ~searchPromises[i].settled
    /\ LET results == searchReachableStations(graph, stationMap,
                          call.args.origins[i], call.args.maxTime)
           stored == storeResults(objects, <<>>, results, 1)
       IN  /\ objects' = stored.objects
           /\ searchPromises' = settle(searchPromises, i, stored.list)
    /\ UNCHANGED <<graphCache, graph, searchVars, call, ret, pc, mergedMap, cursor>>

\* await Promise.all(searchPromises) resumes: every promise is fulfilled
AllSettled ==
    /\ pc = "await"
    /\ \A i \in DOMAIN searchPromises : searchPromises[i].settled
    /\ pc' = "merge"
    /\ cursor' = <<1, 1>>
    /\ UNCHANGED <<graphCache, graph, searchVars, call, ret, objects,
                   searchPromises, mergedMap>>

\* one step of the merge loops: the next result of origins[i], or on to the
\* next origin
MergeStep ==
    /\ pc = "merge"
    /\ cursor[1] <= Len(call.args.origins)
    /\ LET i == cursor[1]
           k == cursor[2]
           results == allResultsOf(searchPromises)[i]
       IN  IF k > Len(results)
           THEN /\ cursor' = <<i + 1, 1>>
                /\ UNCHANGED <<objects, mergedMap>>
           ELSE LET step == mergeStep(objects, mergedMap,
                                      call.args.origins[i], results[k])
                IN  /\ objects' = step.objects
                    /\ mergedMap' = step.mergedMap
                    /\ cursor' = <<i, k + 1>>
    /\ UNCHANGED <<graphCache, graph, searchVars, call, ret, pc, searchPromises>>

\* the filter by mode, the exclusion of the origins, the sort and the return
MergeReturn ==
    /\ pc = "merge"
    /\ cursor[1] > Len(call.args.origins)
    /\ LET values == [j \in DOMAIN mergedMap |-> valueOf(objects, mergedMap[j])]
           filteredResults == filterByMode(values, call.args.origins, call.args.mode)
       IN  ret' = sortByTotalTime(excludeOrigins(filteredResults,
                                                 Range(call.args.origins)))
    /\ pc' = "done"
    /\ UNCHANGED <<graphCache, graph, searchVars, call, mergeVars>>

NextMerge ==
    \/ NoOrigins
    \/ StartSearches
    \/ \E i \in 1..MaxOrigins : i \in DOMAIN searchPromises /\ SearchSettles(i)
    \/ AllSettled
    \/ MergeStep
    \/ MergeReturn

SpecMerge == InitMerge /\ [][NextMerge]_vars

\* SpecGroups: one call of searchWithGroups
InitGroups == InitCall(GroupCalls)

NextGroups == SearchWithGroups

SpecGroups == InitGroups /\ [][NextGroups]_vars

\* SpecEstimate: one call of estimateTransferTime
MaxLines == 8

\* the lines a station can be served by, in a fixed order
LineUniverse == [i \in 1..MaxLines |-> Line("M" \o ToString(i))]

\* the lines lists of the stations: any selection of lines, none twice
RECURSIVE SelectLines(_, _)
SelectLines(picked, i) ==
    IF i > MaxLines THEN <<>>
    ELSE IF i \in picked THEN <<LineUniverse[i]>> \o SelectLines(picked, i + 1)
    ELSE SelectLines(picked, i + 1)

EstimateCalls ==
    {Call("estimateTransferTime", [code |-> c, name |-> c, lines |-> SelectLines(p, 1)]) :
        <<c, p>> \in StationCodes \X SUBSET (1..MaxLines)}

EstimateTransferTime ==
    /\ pc = "call"
    /\ call.fn = "estimateTransferTime"
    /\ Return(estimateTransferTime(call.args))

InitEstimate ==
    /\ graphCache = <<>>
    /\ graph = EmptyMap
    /\ IdleSearch
    /\ IdleMerge
    /\ call \in EstimateCalls
    /\ pc = "call"
    /\ ret = <<>>

NextEstimate == EstimateTransferTime

SpecEstimate == InitEstimate /\ [][NextEstimate]_vars

\* SpecCalls: one call of any of the three searches
InitCalls == InitCall(SingleCalls \cup MultiCalls \cup GroupCalls)

\* the caller invokes the same search again, with the same graph, index
\* and parameters
Repeat ==
    /\ pc = "done"
    /\ ret' = IF call.fn = "searchReachableStations"
              THEN searchReachableStations(graph, stationMap, call.args.originCode,
                                           call.args.maxTime)
              ELSE IF call.fn = "searchMultipleOriginsParallel"
              THEN searchMultipleOriginsParallel(graph, stationMap, call.args)
              ELSE searchWithGroups(graph, stationMap, call.args)
    /\ pc' = "done2"
    /\ UNCHANGED <<mergeVars, graphCache, graph, searchVars, call>>

NextCalls ==
    \/ SearchReachableStations
    \/ SearchMultipleOriginsParallel
    \/ SearchWithGroups
    \/ Repeat

SpecCalls == InitCalls /\ [][NextCalls]_vars

----------------------------------------------------------------------------
(* Claims about the graph builder (SpecBuild) *)

\* every edge has its reverse: same two stations, same line, same time
Symmetric(g) ==
    \A a \in DOMAIN g : \A i \in DOMAIN g[a] :
        /\ g[a][i].station \in DOMAIN g
        /\ \E j \in DOMAIN g[g[a][i].station] :
              g[g[a][i].station][j] = Edge(a, g[a][i].time, g[a][i].line)

\* C10: whatever connections buildGraph and the build script were given,
\* every edge (A->B, line L, time w) of the graph they produce has a reverse
\* edge (B->A, line L, time w) of the same weight.
C10_GraphSymmetry == Symmetric(ret) /\ Symmetric(graph)

\* a graph built from a list that repeats a pair and line in the other
\* direction with another time, after a self-loop
C10_Witness ==
    /\ pc = "done"
    /\ call.fn = "buildGraph"
    /\ LET cs == call.args.connections
       IN  /\ Len(cs) = 3
           /\ cs[1].from = cs[1].to /\ cs[1].from = stations[1].code
           /\ cs[2].from = stations[1].code /\ cs[2].to = stations[2].code
           /\ cs[3].from = cs[2].to /\ cs[3].to = cs[2].from
           /\ cs[3].line = cs[2].line /\ cs[3].time # cs[2].time
           /\ cs[1].line = cs[2].line
    /\ Len(ret[stations[1].code]) = 2
    /\ Len(ret[stations[2].code]) = 1

----------------------------------------------------------------------------
(* Claims about searchReachableStations (SpecSearch) *)

\* The paths of the graph, by their last station, the line of their last
\* edge and their cost: the empty path at the origin costs 0, and a path
\* extended by an edge costs the edge's time more, plus the transfer time of
\* the station where it changes line.  Only costs up to the budget are
\* kept (a prefix never costs more than the path).
ExtendPaths(g, P) ==
    P \cup UNION {{<<EdgesOf(g, p[1])[i].station, EdgesOf(g, p[1])[i].line,
                     p[3] + EdgesOf(g, p[1])[i].time
                          + (IF p[2] # NULL /\ p[2] # EdgesOf(g, p[1])[i].line
                             THEN estimateTransferTime(stationMap[p[1]]) ELSE 0)>> :
                       i \in DOMAIN EdgesOf(g, p[1])} : p \in P}

WithinBudget(budget, P) == {p \in P : p[3] <= budget}

RECURSIVE PathsFrom(_, _, _)
PathsFrom(g, budget, P) ==
    LET Q == WithinBudget(budget, ExtendPaths(g, P))
    IN  IF Q = P THEN P ELSE PathsFrom(g, budget, Q)

PathCosts(g, origin, budget, target) ==
    {p[3] : p \in {q \in PathsFrom(g, budget, WithinBudget(budget, {<<origin, NULL, 0>>})) :
                     q[1] = target}}

TimeIn(results, stationCode) == results[PositionOf(results, stationCode)].totalTime

\* C1: for an origin of the station index and a budget m >= 0, the search
\* reports a station t other than the origin exactly when some path from the
\* origin to t costs at most m, and the totalTime it reports for t is the
\* least cost of a path from the origin to t.
C1_MinimalTimes ==
    (pc = "done" /\ originCode \in DOMAIN stationMap) =>
        \A t \in StationCodes \ {originCode} :
            LET costs == PathCosts(graph, originCode, maxTime, t)
            IN  /\ (t \in StationsIn(ret)) <=> (costs # {})
                /\ (t \in StationsIn(ret)) => TimeIn(ret, t) = MinOf(costs)

\* a finished search whose best route to some station stays on one line
\* through a station that another line reaches earlier
C1_Witness ==
    /\ pc = "done"
    /\ originCode \in DOMAIN stationMap
    /\ \E i \in DOMAIN ret :
          /\ ret[i].station # originCode
          /\ LET route == ret[i].routesFromOrigins[originCode]
                 mid == route[1].toCode
             IN  /\ Len(route) = 2
                 /\ route[1].line = route[2].line
                 /\ stateDistances[bestStateForStation[mid]] < ret[i].totalTime - route[2].time

\* the candidate total of the claim, for an edge out of the popped entry
Candidate(current, edge) ==
    IF current.lineCode = NULL \/ current.lineCode = edge.line
    THEN current.totalTime + edge.time
    ELSE current.totalTime + edge.time
         + estimateTransferTime(stationMap[current.stationCode])

\* the candidates of one iteration that the budget admits, for one state
CandidatesFor(key) ==
    LET edges == EdgesOf(graph, queue[1].stationCode)
    IN  {Candidate(queue[1], edges[i]) :
            i \in {j \in DOMAIN edges :
                      /\ StateKey(edges[j].station, edges[j].line) = key
                      /\ Candidate(queue[1], edges[j]) <= maxTime}}

\* after the iteration every state holds the least of its old time and its
\* admitted candidates, and no other state has appeared
RelaxedByCandidates ==
    /\ DOMAIN stateDistances' =
          DOMAIN stateDistances
            \cup {k \in {StateKey(e.station, e.line) :
                            e \in Range(EdgesOf(graph, queue[1].stationCode))} :
                     CandidatesFor(k) # {}}
    /\ \A k \in DOMAIN stateDistances' :
          stateDistances'[k] =
              MinOf(CandidatesFor(k)
                      \cup (IF Has(stateDistances, k) THEN {stateDistances[k]} ELSE {}))

\* A-B on L1 (5), B-C on L2 (4), B serving two lines
TransferScenario ==
    constructGraph(stations, <<Connection("A", "B", "L1", 5),
                               Connection("B", "C", "L2", 4)>>)

\* C2: relaxing an edge (s->t, line l2, weight w) from a state (s, l) with
\* total d gives the candidate d + w when l is null or l = l2, and
\* d + w + estimateTransferTime(s) when l is another line; with A-B on L1 (5),
\* B-C on L2 (4) and B serving two lines, C is reported at 12.
C2_Relaxation ==
    /\ Len(stationMap["B"].lines) = 2
    /\ TimeIn(searchReachableStations(TransferScenario, stationMap, "A", 20), "C") = 12
    /\ [][(pc = "loop" /\ Len(queue) > 0 /\ expands(stationMap, maxTime, S))
             => RelaxedByCandidates]_vars

\* the search has relaxed an edge from the origin state, an edge that stays
\* on the line and an edge that changes line, and recorded all three
C2_Witness ==
    /\ pc = "loop"
    /\ \E k1, k2, k3 \in DOMAIN pathMap :
          /\ pathMap[k1].prevStation # NULL /\ pathMap[k1].prevLine = NULL
          /\ pathMap[k2].prevLine # NULL /\ pathMap[k2].prevLine = pathMap[k2].lineCode
          /\ pathMap[k3].prevLine # NULL /\ pathMap[k3].prevLine # pathMap[k3].lineCode
          /\ stateDistances[k3] =
                stateDistances[StateKey(pathMap[k3].prevStation, pathMap[k3].prevLine)]
                  + pathMap[k3].time

----------------------------------------------------------------------------
(* Claims about the results of the three searches (SpecCalls) *)

RECURSIVE RouteTime(_)
RouteTime(route) ==
    IF route = <<>> THEN 0
    ELSE route[1].time + RouteTime(Tail(route))

\* C3: for every result of the single-origin, multi-origin or grouped search
\* and every origin o with an entry in routesFromOrigins, the times of the
\* steps of routesFromOrigins[o] add up to timesFromOrigins[o].
C3_RouteTimes ==
    pc = "done" =>
        \A i \in DOMAIN ret :
            \A o \in DOMAIN ret[i].routesFromOrigins :
                /\ Has(ret[i].timesFromOrigins, o)
                /\ RouteTime(ret[i].routesFromOrigins[o]) = ret[i].timesFromOrigins[o]

\* a grouped search of two groups has returned a station with routes from
\* two origins, one of them of two steps on different lines
C3_Witness ==
    /\ pc = "done"
    /\ call.fn = "searchWithGroups"
    /\ Len(call.args) = 2
    /\ \E i \in DOMAIN ret :
          /\ Cardinality(DOMAIN ret[i].routesFromOrigins) = 2
          /\ \E o \in DOMAIN ret[i].routesFromOrigins :
                LET route == ret[i].routesFromOrigins[o]
                IN  /\ Len(route) = 2
                    /\ route[1].line # route[2].line
                    /\ route[2].time > MaxEdgeTime

\* the origin codes supplied to the call
SuppliedOrigins ==
    IF call.fn = "searchReachableStations" THEN {call.args.originCode}
    ELSE IF call.fn = "searchMultipleOriginsParallel" THEN Range(call.args.origins)
    ELSE allOriginsOf(call.args)

\* the statement that also the single-origin list leaves its origin out
C4_NoOriginAnywhere ==
    pc = "done" => StationsIn(ret) \cap SuppliedOrigins = {}

\* C4: no result of searchMultipleOriginsParallel (either mode) has the code
\* of one of its origins, and no result of searchWithGroups the code of an
\* origin of any group; the list of searchReachableStations itself holds
\* its origin, with total time 0, exactly when the origin is a station of
\* the index.
C4_OriginsExcluded ==
    pc = "done" =>
        IF call.fn = "searchReachableStations"
        THEN LET origin == call.args.originCode
             IN  /\ (origin \in StationsIn(ret)) <=> Has(stationMap, origin)
                 /\ (origin \in StationsIn(ret)) => TimeIn(ret, origin) = 0
        ELSE StationsIn(ret) \cap SuppliedOrigins = {}

\* a search from two origins has returned a station although one origin is
\* within the budget of the other
C4_Witness ==
    /\ pc = "done"
    /\ call.fn = "searchMultipleOriginsParallel"
    /\ Len(call.args.origins) = 2
    /\ call.args.origins[1] # call.args.origins[2]
    /\ PathCosts(graph, call.args.origins[1], call.args.maxTime,
                 call.args.origins[2]) # {}
    /\ Len(ret) > 0

----------------------------------------------------------------------------
(* Claims about searchMultipleOriginsParallel (SpecMulti) *)

\* the call of the state with another budget, or in another mode
WithBudget(budget) ==
    searchMultipleOriginsParallel(graph, stationMap,
                                  [call.args EXCEPT !.maxTime = budget])

InMode(mode) ==
    searchMultipleOriginsParallel(graph, stationMap,
                                  [call.args EXCEPT !.mode = mode])

\* the single-origin search the call runs for origin o
PerOrigin(o) == searchReachableStations(graph, stationMap, o, call.args.maxTime)

\* the origins of the call whose own search reached the station
Reaching(stationCode) ==
    {o \in Range(call.args.origins) : stationCode \in StationsIn(PerOrigin(o))}

PerOriginTimes(stationCode) ==
    {TimeIn(PerOrigin(o), stationCode) : o \in Reaching(stationCode)}

\* timesFromOrigins has one entry per origin that reached the station,
\* holding the time of that origin's search
TimesPerReachingOrigin(result) ==
    /\ DOMAIN result.timesFromOrigins = Reaching(result.station)
    /\ \A o \in Reaching(result.station) :
          result.timesFromOrigins[o] = TimeIn(PerOrigin(o), result.station)

\* C5: for a fixed graph and fixed origins and budgets m1 <= m2, every
\* station of the 'or' result with maxTime = m1 is in the result with
\* maxTime = m2.
C5_OrMonotone ==
    (pc = "done" /\ call.args.mode = "or") =>
        \A m2 \in call.args.maxTime..MaxBudget :
            StationsIn(ret) \subseteq StationsIn(WithBudget(m2))

\* an 'or' search has returned a station, and a larger budget returns more
C5_Witness ==
    /\ pc = "done"
    /\ call.args.mode = "or"
    /\ Len(ret) > 0
    /\ \E m2 \in call.args.maxTime..MaxBudget :
          StationsIn(ret) # StationsIn(WithBudget(m2))

\* C6: for the same graph, origins and budget, the stations returned in
\* 'and' mode are a subset of the stations returned in 'or' mode.
C6_AndWithinOr ==
    pc = "done" =>
        IF call.args.mode = "and"
        THEN StationsIn(ret) \subseteq StationsIn(InMode("or"))
        ELSE StationsIn(InMode("and")) \subseteq StationsIn(ret)

\* an 'and' search from two origins has dropped a station that the 'or'
\* search returns
C6_Witness ==
    /\ pc = "done"
    /\ call.args.mode = "and"
    /\ Len(call.args.origins) = 2
    /\ StationsIn(InMode("or")) \ StationsIn(ret) # {}

\* C7: in 'or' mode the result is the union of the stations reached by the
\* per-origin searches, minus the origins; each station has the least of
\* the times of the origins that reached it as totalTime, and one entry of
\* timesFromOrigins per origin that reached it, holding that origin's time.
C7_OrIsUnion ==
    (pc = "done" /\ call.args.mode = "or") =>
        /\ StationsIn(ret) =
              UNION {StationsIn(PerOrigin(o)) : o \in Range(call.args.origins)}
                \ Range(call.args.origins)
        /\ \A i \in DOMAIN ret :
              /\ TimesPerReachingOrigin(ret[i])
              /\ ret[i].totalTime = MinOf(PerOriginTimes(ret[i].station))

\* an 'or' search has returned a station reached by both origins, sooner
\* from the second than from the first
C7_Witness ==
    /\ pc = "done"
    /\ call.args.mode = "or"
    /\ Len(call.args.origins) = 2
    /\ \E i \in DOMAIN ret :
          /\ DOMAIN ret[i].timesFromOrigins = Range(call.args.origins)
          /\ ret[i].timesFromOrigins[call.args.origins[2]]
                < ret[i].timesFromOrigins[call.args.origins[1]]

\* E reached from A in 10 and from D in 25, with the stations A, B, C of the
\* dataset in the places of A, D, E
AndScenario ==
    searchMultipleOriginsParallel(
        constructGraph(stations, <<Connection("A", "C", "L1", 10),
                                   Connection("B", "C", "L1", 25)>>),
        stationMap, SearchParams(<<"A", "B">>, 30, "and"))

\* C8: in 'and' mode only stations reached by the search of every origin
\* are returned; each has the largest of the per-origin times as totalTime
\* and every origin's own time in timesFromOrigins (a station reached in 10
\* and in 25 gets totalTime 25 and the times 10 and 25).
C8_AndIsIntersection ==
    /\ Len(AndScenario) = 1
    /\ AndScenario[1].station = "C"
    /\ AndScenario[1].totalTime = 25
    /\ AndScenario[1].timesFromOrigins = ("A" :> 10) @@ ("B" :> 25)
    /\ (pc = "done" /\ call.args.mode = "and") =>
          /\ Len(call.args.origins) > 0 =>
                StationsIn(ret) =
                    {c \in StationCodes : Reaching(c) = Range(call.args.origins)}
                      \ Range(call.args.origins)
          /\ \A i \in DOMAIN ret :
                /\ Reaching(ret[i].station) = Range(call.args.origins)
                /\ TimesPerReachingOrigin(ret[i])
                /\ ret[i].totalTime = MaxOf(PerOriginTimes(ret[i].station))

\* an 'and' search has returned a station that its two origins reach at
\* different times
C8_Witness ==
    /\ pc = "done"
    /\ call.args.mode = "and"
    /\ Len(call.args.origins) = 2
    /\ \E i \in DOMAIN ret :
          ret[i].timesFromOrigins[call.args.origins[1]]
            < ret[i].timesFromOrigins[call.args.origins[2]]

----------------------------------------------------------------------------
(* Claims about searchWithGroups (SpecGroups) *)

\* the 'or' search of group i of the call, with the group's own timeMinutes
GroupOr(i) ==
    searchMultipleOriginsParallel(graph, stationMap,
        SearchParams(call.args[i].origins, call.args[i].timeMinutes, "or"))

\* C9: for two or more groups searchWithGroups returns exactly the stations
\* in the 'or' result of every group, each group searched with its own
\* timeMinutes; each station appears once, with the largest of the groups'
\* own 'or' total times for it as totalTime, and a station missing from one
\* group's result is left out.
C9_GroupsIntersect ==
    (pc = "done" /\ Len(call.args) >= 2) =>
        /\ StationsIn(ret) =
              {c \in StationCodes :
                  \A i \in DOMAIN call.args : c \in StationsIn(GroupOr(i))}
        /\ \A i, j \in DOMAIN ret : ret[i].station = ret[j].station => i = j
        /\ \A i \in DOMAIN ret :
              ret[i].totalTime =
                  MaxOf({TimeIn(GroupOr(k), ret[i].station) : k \in DOMAIN call.args})

\* a search of two groups has returned a station that the first group
\* reaches later than the second, and left out one that only one group has
C9_Witness ==
    /\ pc = "done"
    /\ Len(call.args) = 2
    /\ \E i \in DOMAIN ret :
          TimeIn(GroupOr(2), ret[i].station) < TimeIn(GroupOr(1), ret[i].station)
    /\ StationsIn(GroupOr(1)) \ StationsIn(ret) # {}

----------------------------------------------------------------------------
(* Further claims about the graph builder (SpecBuild) *)

\* every station of the arguments is a key of g, with no edge when no
\* connection between two stations of the arguments touches it
CoversStations(args, g) ==
    LET known == {args.stations[i].code : i \in DOMAIN args.stations}
        Touches(conn, c) ==
            /\ conn.from \in known /\ conn.to \in known
            /\ (conn.from = c \/ conn.to = c)
    IN  \A c \in known :
            /\ Has(g, c)
            /\ (\A j \in DOMAIN args.connections : ~Touches(args.connections[j], c))
                  => g[c] = <<>>

\* the statement for every call, a call answered from the cache included
C11_EveryCallCovers ==
    pc \in {"done", "done2"} => CoversStations(call.args, ret)

\* C11: a call of buildGraph that finds no cached graph (the first call, or
\* the first after clearGraphCache), and the build script, return a graph
\* with every station of the stations argument as a key, with an empty edge
\* list when no valid connection touches it; a call that finds a cached
\* graph returns that graph whatever its arguments are.
C11_IsolatedNodes ==
    [][/\ (pc \in {"call", "call2"} /\ pc' \in {"done", "done2"})
            => IF Len(graphCache) = 0 THEN CoversStations(call.args, ret')
               ELSE ret' = graphCache[1]
       /\ pc' = "written" => CoversStations(call.args, graph')]_vars

\* a graph has been built from connections of which one joins two stations
\* and another leads from a station to an unknown code: the first station
\* has an edge, the second and the untouched third station have none
C11_Witness ==
    /\ pc = "done"
    /\ \E i, j \in DOMAIN call.args.connections :
          /\ call.args.connections[i].from = "A"
          /\ call.args.connections[i].to = "A"
          /\ call.args.connections[j].from = "B"
          /\ call.args.connections[j].to = UnknownCode
    /\ ret["A"] # <<>>
    /\ ret["B"] = <<>>
    /\ ret["C"] = <<>>

----------------------------------------------------------------------------
(* Further claims about the results of the three searches (SpecCalls) *)

\* the budgets supplied to the call
SuppliedBudgets ==
    IF call.fn = "searchWithGroups"
    THEN {call.args[i].timeMinutes : i \in DOMAIN call.args}
    ELSE {call.args.maxTime}

ZeroTimeEdge(g) == \E a \in DOMAIN g : \E i \in DOMAIN g[a] : g[a][i].time = 0

\* no station can be at a distance within budget b: b is negative, or zero
\* with every edge taking time
NothingWithin(b) == b < 0 \/ (b = 0 /\ ~ZeroTimeEdge(graph))

----------------------------------------------------------------------------
(* Further claims about searchReachableStations (SpecSearch) *)

\* the station index without one station, which stays a key of the graph
IndexWithout(code) == [c \in DOMAIN stationMap \ {code} |-> stationMap[c]]

\* the search from origin over an index that lacks it records no state
\* beyond the origin's and returns nothing
NothingFromUnknown(index, origin) ==
    LET final == searchLoop(graph, index, maxTime, InitialSearch(origin))
    IN  /\ DOMAIN final.stateDistances = {StateKey(origin, NULL)}
        /\ DOMAIN final.pathMap = {StateKey(origin, NULL)}
        /\ buildResults(index, origin, final) = <<>>

\* C13: searchReachableStations called with an origin code that is not in
\* the station index relaxes no edge and returns an empty list, whether or
\* not the code is a key of the graph.
C13_UnknownOrigin ==
    /\ originCode \notin DOMAIN stationMap =>
          /\ DOMAIN stateDistances = {StateKey(originCode, NULL)}
          /\ DOMAIN pathMap = {StateKey(originCode, NULL)}
          /\ pc = "done" => ret = <<>>
    /\ pc = "done" =>
          \A o \in DOMAIN graph : NothingFromUnknown(IndexWithout(o), o)

\* the search from the unknown code has returned, over a graph in which
\* every station has an edge
C13_Witness ==
    /\ pc = "done"
    /\ originCode = UnknownCode
    /\ ret = <<>>
    /\ \A o \in DOMAIN graph : graph[o] # <<>>

----------------------------------------------------------------------------
(* Claims about repeated and about malformed calls (SpecCalls) *)

----------------------------------------------------------------------------
(* Claims about the reconstructed routes (SpecSearch) *)

\* the routes of the returned list, all from originCode
ReturnedRoutes ==
    {ret[i].routesFromOrigins[originCode] :
        i \in {j \in DOMAIN ret : DOMAIN ret[j].routesFromOrigins # {}}}

\* the edges of the graph that a step can have travelled: from its fromCode
\* to its toCode on a line of the step's line name
EdgesOfStep(step) ==
    {e \in Range(EdgesOf(graph, step.fromCode)) :
        e.station = step.toCode /\ getLineName(e.line) = step.line}

BaseWeight(step) == (CHOOSE e \in EdgesOfStep(step) : TRUE).time

\* C15: in every reconstructed route a step whose line differs from the
\* line of the step before it has the base weight of its edge plus
\* estimateTransferTime of its from-station as time; the first step, and a
\* step on the line of the step before it, has exactly the base weight.
C15_TransferInsertion ==
    pc = "done" =>
        \A route \in ReturnedRoutes : \A k \in DOMAIN route :
            /\ EdgesOfStep(route[k]) # {}
            /\ route[k].time =
                  IF k > 1 /\ route[k - 1].line # route[k].line
                  THEN BaseWeight(route[k])
                       + estimateTransferTime(stationMap[route[k].fromCode])
                  ELSE BaseWeight(route[k])

\* the search has returned a route that changes line at a station of three
\* lines and a route of one step
C15_Witness ==
    /\ pc = "done"
    /\ \E route \in ReturnedRoutes :
          /\ Len(route) = 2
          /\ route[1].line # route[2].line
          /\ Len(stationMap[route[2].fromCode].lines) = 3
          /\ route[2].time > BaseWeight(route[2])
    /\ \E route \in ReturnedRoutes : Len(route) = 1

\* A-B (5) and B-C (4) on one line, searched from A with a budget of 20
ChainScenario ==
    searchReachableStations(
        constructGraph(stations, <<Connection("A", "B", "L1", 5),
                                   Connection("B", "C", "L1", 4)>>),
        stationMap, "A", 20)

\* C16: every route reconstructed for origin o and result station t is a
\* connected chain in travel order: the first step starts at o, each step
\* ends where the next starts, the last step ends at t, and each step is an
\* edge of the graph (for A-B 5 and B-C 4 on one line the route of C is
\* A->B 5, B->C 4).
C16_RouteChain ==
    /\ ChainScenario[PositionOf(ChainScenario, "C")].routesFromOrigins["A"] =
          <<RouteStep("A", "B", stationMap["A"].name, stationMap["B"].name,
                      getLineName("L1"), 5),
            RouteStep("B", "C", stationMap["B"].name, stationMap["C"].name,
                      getLineName("L1"), 4)>>
    /\ pc = "done" =>
          \A i \in DOMAIN ret :
              DOMAIN ret[i].routesFromOrigins # {} =>
                  LET route == ret[i].routesFromOrigins[originCode]
                  IN  /\ route[1].fromCode = originCode
                      /\ route[Len(route)].toCode = ret[i].station
                      /\ \A k \in 1..(Len(route) - 1) :
                            route[k].toCode = route[k + 1].fromCode
                      /\ \A k \in DOMAIN route :
                            /\ EdgesOfStep(route[k]) # {}
                            /\ route[k].from = stationMap[route[k].fromCode].name
                            /\ route[k].to = stationMap[route[k].toCode].name

\* the search has returned a route of two steps through a third station
C16_Witness ==
    /\ pc = "done"
    /\ \E i \in DOMAIN ret :
          /\ DOMAIN ret[i].routesFromOrigins # {}
          /\ Len(ret[i].routesFromOrigins[originCode]) = 2
          /\ ret[i].routesFromOrigins[originCode][1].toCode
                \notin {originCode, ret[i].station}

----------------------------------------------------------------------------
(* Claims about estimateTransferTime (SpecEstimate) *)

DistinctLines(station) == {station.lines[i].code : i \in DOMAIN station.lines}

\* C17: estimateTransferTime(station) depends only on the number of distinct
\* lines serving the station: it is 3 for at most 2 lines, 5 for 3 or 4,
\* 7 for 5 or 6, and 10 otherwise.
C17_TransferTimeSteps ==
    (pc = "done" /\ call.fn = "estimateTransferTime") =>
        LET n == Cardinality(DistinctLines(call.args))
        IN  /\ n <= 2 => ret = 3
            /\ n \in {3, 4} => ret = 5
            /\ n \in {5, 6} => ret = 7
            /\ n > 6 => ret = 10

\* the estimate of a station of seven lines has been returned
C17_Witness ==
    /\ pc = "done"
    /\ call.fn = "estimateTransferTime"
    /\ Cardinality(DistinctLines(call.args)) = 7
    /\ ret = 10

----------------------------------------------------------------------------
(* Claims about the order and the bounds of the results (SpecCalls) *)

\* C18: the lists returned by searchReachableStations, by
\* searchMultipleOriginsParallel in both modes and by searchWithGroups are
\* in non-decreasing order of the totalTime finally reported.
C18_SortedByTotalTime ==
    pc = "done" =>
        \A i, j \in DOMAIN ret : i < j => ret[i].totalTime <= ret[j].totalTime

\* a single-origin search has returned three results of increasing time,
\* the last of them the station of the first edge out of the origin
C18_Witness ==
    /\ pc = "done"
    /\ call.fn = "searchReachableStations"
    /\ Len(ret) = 3
    /\ ret[1].totalTime < ret[2].totalTime
    /\ ret[2].totalTime < ret[3].totalTime
    /\ EdgesOf(graph, call.args.originCode)[1].station = ret[3].station

\* C19: searchMultipleOriginsParallel with an empty origins list returns
\* an empty list, no single-origin search being invoked, and
\* searchWithGroups with an empty group list, or with groups of which one
\* has no origins, returns an empty list; none of them fails.
C19_EmptyInputs ==
    pc = "done" =>
        /\ (call.fn = "searchMultipleOriginsParallel" /\ Len(call.args.origins) = 0)
              => ret = <<>>
        /\ (call.fn = "searchWithGroups" /\ Len(call.args) = 0) => ret = <<>>
        /\ (/\ call.fn = "searchWithGroups"
            /\ \E i \in DOMAIN call.args : Len(call.args[i].origins) = 0)
              => ret = <<>>

\* a search of two groups has returned nothing because the first group has
\* no origins, although the second group alone reaches a station
C19_Witness ==
    /\ pc = "done"
    /\ call.fn = "searchWithGroups"
    /\ Len(call.args) = 2
    /\ Len(call.args[1].origins) = 0
    /\ Len(GroupOr(2)) > 0
    /\ ret = <<>>

\* every result has its total time and its times per origin within b
ResultsWithin(b) ==
    \A i \in DOMAIN ret :
        /\ ret[i].totalTime <= b
        /\ \A o \in DOMAIN ret[i].timesFromOrigins : ret[i].timesFromOrigins[o] <= b

\* the statement for every budget, the negative ones included
C20_WithinAnyBudget ==
    pc = "done" =>
        IF call.fn = "searchWithGroups"
        THEN \A i \in DOMAIN ret : ret[i].totalTime <= MaxOf(SuppliedBudgets)
        ELSE ResultsWithin(call.args.maxTime)

\* C20: for a budget maxTime >= 0 every result of searchReachableStations
\* and of searchMultipleOriginsParallel (either mode) has totalTime and
\* every value of timesFromOrigins at most maxTime, and every result of
\* searchWithGroups has totalTime at most the largest group budget; with a
\* negative maxTime searchMultipleOriginsParallel returns nothing and
\* searchReachableStations returns only its origin, with totalTime 0.
C20_WithinBudget ==
    pc = "done" =>
        IF call.fn = "searchWithGroups"
        THEN \A i \in DOMAIN ret : ret[i].totalTime <= MaxOf(SuppliedBudgets)
        ELSE IF call.args.maxTime >= 0 THEN ResultsWithin(call.args.maxTime)
        ELSE IF call.fn = "searchMultipleOriginsParallel" THEN ret = <<>>
        ELSE \A i \in DOMAIN ret :
                 ret[i].station = call.args.originCode /\ ret[i].totalTime = 0

\* an 'and' search has returned a station that one origin reaches in
\* exactly the budget and the other sooner
C20_Witness ==
    /\ pc = "done"
    /\ call.fn = "searchMultipleOriginsParallel"
    /\ call.args.mode = "and"
    /\ call.args.maxTime > 0
    /\ \E i \in DOMAIN ret :
          /\ ret[i].totalTime = call.args.maxTime
          /\ \E o \in DOMAIN ret[i].timesFromOrigins :
                ret[i].timesFromOrigins[o] < call.args.maxTime


\* ---------------------------------------------------------------------
\* C21: at every iteration of the search loop, for every reached station s,
\* stationDistances[s] is the minimum of stateDistances over the recorded
\* states (s, line), and is stateDistances of bestStateForStation[s], which
\* is one of those states (for the origin, the initial state on no line).
StatesOf(s) == {k \in DOMAIN stateDistances : k[1] = s}

StationMinimum(s) ==
    /\ StatesOf(s) # {}
    /\ stationDistances[s] = MinOf({stateDistances[k] : k \in StatesOf(s)})
    /\ Has(bestStateForStation, s)
    /\ bestStateForStation[s] \in StatesOf(s)
    /\ stationDistances[s] = stateDistances[bestStateForStation[s]]

C21_StationMinimum ==
    \A s \in DOMAIN stationDistances : StationMinimum(s)

C21_Witness ==
    \E s \in DOMAIN stationDistances :
        /\ \E k \in StatesOf(s) : stateDistances[k] > stationDistances[s]
        /\ \E k \in StatesOf(s) : k # bestStateForStation[s]
        /\ StationMinimum(s)

\* ---------------------------------------------------------------------
\* C22: after buildGraph (and the build script) has processed any sequence
\* of connections, no station's edge list holds two edges with the same
\* target station and the same line.
NoDuplicateEdges(g) ==
    \A c \in DOMAIN g : \A i, j \in DOMAIN g[c] :
        (g[c][i].station = g[c][j].station /\ g[c][i].line = g[c][j].line)
            => i = j

\* two connections of the list ask for the same edge of a known station
RepeatedConnection(connections, known) ==
    \E i, j \in DOMAIN connections :
        /\ i < j
        /\ connections[i].from \in known /\ connections[i].to \in known
        /\ connections[i].line = connections[j].line
        /\ \/ /\ connections[i].from = connections[j].from
              /\ connections[i].to = connections[j].to
           \/ /\ connections[i].from = connections[j].to
              /\ connections[i].to = connections[j].from

C22_NoDuplicateEdges ==
    /\ NoDuplicateEdges(ret)
    /\ NoDuplicateEdges(graph)
    /\ \A i \in DOMAIN graphCache : NoDuplicateEdges(graphCache[i])

C22_Witness ==
    /\ pc = "done"
    /\ RepeatedConnection(call.args.connections, StationCodes)
    /\ \E c \in DOMAIN ret : Len(ret[c]) > 1
    /\ NoDuplicateEdges(ret)

\* ---------------------------------------------------------------------
\* C23: a connection whose from or to code is not the code of an input
\* station adds no edge and raises no error: the graph built from a
\* connection list is the graph built from the list without such
\* connections (by buildGraph when it builds, and by the build script).
KnownCodes(stationList) == {stationList[i].code : i \in DOMAIN stationList}

ValidConnections(stationList, connections) ==
    LET valid(conn) == /\ conn.from \in KnownCodes(stationList)
                       /\ conn.to \in KnownCodes(stationList)
    IN  SelectSeq(connections, valid)

HasInvalidConnection(args) ==
    Len(ValidConnections(args.stations, args.connections)) < Len(args.connections)

C23_UnknownCodesIgnored ==
    /\ pc = "done" =>
          /\ ret = constructGraph(call.args.stations,
                      ValidConnections(call.args.stations, call.args.connections))
          /\ DOMAIN ret = KnownCodes(call.args.stations)
    /\ pc = "written" =>
          /\ graph = scriptGraph(call.args.stations,
                      ValidConnections(call.args.stations, call.args.connections))
          /\ DOMAIN graph = KnownCodes(call.args.stations)

C23_Witness ==
    /\ pc = "done"
    /\ HasInvalidConnection(call.args)
    /\ Len(ValidConnections(call.args.stations, call.args.connections)) > 0
    /\ \E c \in DOMAIN ret : Len(ret[c]) > 0
    /\ ret = constructGraph(call.args.stations,
                ValidConnections(call.args.stations, call.args.connections))

\* ---------------------------------------------------------------------
\* C28: once buildGraph has returned a graph, every later call returns that
\* same graph whatever stations and connections it is given, until
\* clearGraphCache is called; the first call after clearGraphCache builds a
\* graph from its own arguments.  The cache is empty exactly when no call
\* has returned since the last clearGraphCache, and ret still holds what
\* the previous call returned when the later call is made.
LaterCall == pc = "call2" /\ pc' = "done2"

C28_CachedUntilCleared ==
    [][/\ (LaterCall /\ Len(graphCache) > 0) => ret' = ret
       /\ (LaterCall /\ Len(graphCache) = 0) =>
              /\ ret' = constructGraph(call.args.stations, call.args.connections)
              /\ DOMAIN ret' = KnownCodes(call.args.stations)
       /\ (pc \in {"call", "call2"} /\ pc' \in {"done", "done2"}) =>
              graphCache' = <<ret'>>
       /\ (pc \in {"done", "done2"} /\ pc' = pc) => graphCache' = <<>>]_vars

\* a later call with other arguments got the graph of the first call
C28_Witness ==
    /\ pc = "done2"
    /\ Len(graphCache) > 0
    /\ ret = graphCache[1]
    /\ ret # constructGraph(call.args.stations, call.args.connections)
    /\ DOMAIN ret # KnownCodes(call.args.stations)

\* ---------------------------------------------------------------------
\* C26: when states on different lines reach a station with the same
\* minimal total time, the reported route is the one of the relaxation that
\* first set that minimum: bestStateForStation[s] is replaced only by a
\* relaxation whose total is strictly smaller than the current
\* stationDistances[s], and the predecessor record of an unreplaced best
\* state stays as that relaxation wrote it.
BestStateKept(s) ==
    \/ stationDistances'[s] < stationDistances[s]
    \/ /\ stationDistances'[s] = stationDistances[s]
       /\ bestStateForStation'[s] = bestStateForStation[s]
       /\ pathMap'[bestStateForStation[s]] = pathMap[bestStateForStation[s]]

C26_FirstMinimumKept ==
    [][\A s \in DOMAIN bestStateForStation : BestStateKept(s)]_vars

\* a station other than the origin has been reached with its minimal time
\* on two lines; the later one did not replace the best state
C26_Witness ==
    /\ pc = "done"
    /\ \E s \in DOMAIN bestStateForStation : \E k \in StatesOf(s) :
          /\ s # originCode
          /\ k # bestStateForStation[s]
          /\ stateDistances[k] = stationDistances[s]
          /\ stateDistances[bestStateForStation[s]] = stationDistances[s]
          /\ \E i \in DOMAIN ret : LET route == ret[i].routesFromOrigins[originCode] IN
                /\ ret[i].station = s
                /\ route[Len(route)].line = getLineName(bestStateForStation[s][2])
                /\ route[Len(route)].line # getLineName(k[2])

\* ---------------------------------------------------------------------
\* C25: searchReachableStations terminates for every finite graph with
\* non-negative edge weights (cycles and zero-weight edges included) and
\* every budget: the heap eventually becomes empty and the call returns, and
\* the backward walk from the best state of every station reaches a state
\* without predecessor (the origin state) in no more steps than there are
\* predecessor records.
RECURSIVE WalkEnds(_, _)
WalkEnds(currentState, fuel) ==
    \/ ~Has(pathMap, currentState)
    \/ pathMap[currentState].prevStation = NULL
    \/ /\ fuel > 0
       /\ WalkEnds(StateKey(pathMap[currentState].prevStation,
                            pathMap[currentState].prevLine), fuel - 1)

WalksEnd ==
    \A s \in DOMAIN bestStateForStation :
        WalkEnds(bestStateForStation[s], Cardinality(DOMAIN pathMap))

ZeroTimeCycle(g) ==
    \E a, b \in DOMAIN g :
        /\ a # b
        /\ \E i \in DOMAIN g[a] : g[a][i].station = b /\ g[a][i].time = 0
        /\ \E i \in DOMAIN g[b] : g[b][i].station = a /\ g[b][i].time = 0

C25_Terminates ==
    /\ <>(pc = "done" /\ Len(queue) = 0)
    /\ []WalksEnd

\* a search over a graph with a cycle of zero-time edges has returned, with
\* a route of two steps walked back to the origin
C25_Witness ==
    /\ pc = "done"
    /\ Len(queue) = 0
    /\ ZeroTimeCycle(graph)
    /\ WalksEnd
    /\ \E r \in ReturnedRoutes : Len(r) >= 2 /\ r[1].fromCode = originCode

\* ---------------------------------------------------------------------
\* C24: the searches leave the graph (and the station index, which the model
\* holds as the definition stationMap) unchanged, and the merge of the
\* per-origin results never modifies the list or the result objects that a
\* single-origin search returned: once a promise is fulfilled its list and
\* every object reachable from it stay as the search made them.
OwnedBy(list) ==
    UNION {{list[k], objects[list[k]].timesFromOrigins,
            objects[list[k]].routesFromOrigins} : k \in DOMAIN list} \ {NoRef}

SearchResultsKept ==
    \A i \in DOMAIN searchPromises : searchPromises[i].settled =>
        /\ searchPromises'[i] = searchPromises[i]
        /\ \A ref \in OwnedBy(searchPromises[i].value) : objects'[ref] = objects[ref]

C24_SearchesLeaveInputs ==
    [][graph' = graph /\ graphCache' = graphCache /\ SearchResultsKept]_vars

\* two origins have reached the same station and their results are merged
C24_Witness ==
    /\ pc = "done"
    /\ Len(searchPromises) = 2
    /\ \E m \in Range(mergedMap) :
          /\ Cardinality(DOMAIN objects[objects[m].timesFromOrigins]) = 2
          /\ objects[m].routesFromOrigins # NoRef
          /\ objects[m].routesFromOrigins
                \notin OwnedBy(searchPromises[1].value) \cup OwnedBy(searchPromises[2].value)
    /\ \A i \in DOMAIN searchPromises : \A k \in DOMAIN searchPromises[i].value :
          Cardinality(DOMAIN valueOf(objects, searchPromises[i].value[k]).timesFromOrigins) = 1

\* ---------------------------------------------------------------------
\* C27: the merged output of searchMultipleOriginsParallel does not depend on
\* the order in which the per-origin searches complete: the merge starts
\* only after all of them have finished and pairs each finished result with
\* its origin by position in the origins list.
PairedByPosition ==
    \A i \in DOMAIN searchPromises :
        [k \in DOMAIN searchPromises[i].value |->
            valueOf(objects, searchPromises[i].value[k])]
        = searchReachableStations(graph, stationMap, call.args.origins[i],
                                  call.args.maxTime)

C27_CompletionOrder ==
    /\ pc = "merge" => /\ \A i \in DOMAIN searchPromises : searchPromises[i].settled
                       /\ cursor = <<1, 1>> => PairedByPosition
    /\ pc = "done" => ret = searchMultipleOriginsParallel(graph, stationMap, call.args)

\* the search of the second origin finished first, and the two searches
\* returned different lists
C27_Witness ==
    /\ pc = "done"
    /\ Len(searchPromises) = 2
    /\ Len(searchPromises[2].value) > 0 /\ Len(searchPromises[1].value) > 0
    /\ searchPromises[2].value[1] < searchPromises[1].value[1]
    /\ call.args.origins[1] # call.args.origins[2]
    /\ Len(ret) > 0
    /\ ret = searchMultipleOriginsParallel(graph, stationMap, call.args)

\* ---------------------------------------------------------------------
\* C29: permuting the origins list of searchMultipleOriginsParallel (in
\* either mode) does not change the set of returned stations, nor any
\* returned station's totalTime or its timesFromOrigins mapping; only the
\* relative order of results with equal totalTime may differ.
Permuted(origins) ==
    {[i \in DOMAIN origins |-> origins[f[i]]] : f \in Permutations(DOMAIN origins)}

WithOrigins(origins) ==
    searchMultipleOriginsParallel(graph, stationMap,
                                  [call.args EXCEPT !.origins = origins])

TimesOf(results) ==
    {<<results[i].station, results[i].totalTime, results[i].timesFromOrigins>> :
        i \in DOMAIN results}

C29_OriginOrder ==
    pc = "done" =>
        \A origins \in Permuted(call.args.origins) :
            /\ TimesOf(WithOrigins(origins)) = TimesOf(ret)
            /\ Len(WithOrigins(origins)) = Len(ret)
            /\ [i \in DOMAIN ret |-> WithOrigins(origins)[i].totalTime]
                  = [i \in DOMAIN ret |-> ret[i].totalTime]

\* two different origins reach a station in different times, in the one
\* order of the origins and in the other
C29_Witness ==
    /\ pc = "done"
    /\ Len(call.args.origins) = 2
    /\ \E origins \in Permuted(call.args.origins) :
          /\ origins # call.args.origins
          /\ TimesOf(WithOrigins(origins)) = TimesOf(ret)
          /\ \E i \in DOMAIN ret :
                /\ DOMAIN ret[i].timesFromOrigins = Range(origins)
                /\ ret[i].timesFromOrigins[origins[1]]
                      < ret[i].timesFromOrigins[origins[2]]

\* ---------------------------------------------------------------------
\* C30: each station code appears at most once in the list returned by
\* searchReachableStations, by searchMultipleOriginsParallel and by
\* searchWithGroups, also when the origins list holds the same code twice
\* or the same origin appears in several groups.
C30_StationsOnce ==
    pc \in {"done", "done2"} =>
        \A i, j \in DOMAIN ret : ret[i].station = ret[j].station => i = j

RepeatedOrigin ==
    \/ /\ call.fn = "searchMultipleOriginsParallel"
       /\ \E i, j \in DOMAIN call.args.origins :
             i < j /\ call.args.origins[i] = call.args.origins[j]
    \/ /\ call.fn = "searchWithGroups"
       /\ \E g, h \in DOMAIN call.args :
             g < h /\ Range(call.args[g].origins) \cap Range(call.args[h].origins) # {}

\* a call with a repeated origin has returned two stations
C30_Witness ==
    /\ pc = "done"
    /\ RepeatedOrigin
    /\ Len(ret) >= 2
    /\ \A i, j \in DOMAIN ret : ret[i].station = ret[j].station => i = j
====
